---- MODULE Spec2Model ----
(***************************************************************************)
(* Model of the configuration persistence and backup/restore subsystem:    *)
(*   - admin-panel/core/user_storage.py   (UserStorage, the document store)*)
(*   - admin-panel/core/backup_manager.py (BackupManager, the orchestrator)*)
(*   - core/interfaces.py                 (User.validate)                  *)
(* Files are modelled by their content, callers by a call stack of frames  *)
(* per process, the advisory lock by the frame (open file description)     *)
(* that holds it.                                                          *)
(***************************************************************************)
EXTENDS Integers, Sequences, FiniteSets, TLC

\* ------------------------------------------------------------------ bounds
\* total number of top-level store calls made in one behaviour
MaxCalls == 3
\* number of process crashes in one behaviour
MaxCrashes == 1
\* the clock (seconds) runs from 0 to MaxClock
MaxClock == 1
\* longest run of word characters in the usernames given to save_users
\* beyond the 32 the pattern allows
ExtraLen == 1
\* failures of the environment (a service that does not stop or start, an
\* I/O error in the orchestrator) in one behaviour
MaxFaults == 4
\* operator-initiated restores in one behaviour
MaxRestores == 1
\* archives the operator creates or uploads beyond a full catalog
MaxOps == 1

\* the cooperating processes that share the document file
Procs == {"p1", "p2"}

\* ------------------------------------------------------- program constants
SCHEMA_VERSION == 1
UsernameMin == 3
UsernameMax == 32
WgKeyMin == 32
TrojanMin == 16
AutoKeep == 10
BackupKeep == 20
RollbackThreshold == 2

\* ------------------------------------------------------------ User.validate
\* A string is a sequence of character classes:
\*   "w"  a character of [a-zA-Z0-9_-] that is no hex digit position marker
\*   "h"  a lowercase hex digit, "H" an uppercase hex letter, "-" a dash
\*   "n"  the newline character, "x" any other character
WordChars == {"w", "h", "H", "-"}

Lower(s) == [i \in 1..Len(s) |-> IF s[i] = "H" THEN "h" ELSE s[i]]

\* Python's $ matches at the end of the string and just before a newline
\* that ends the string.
AtDollar(s, k) == k = Len(s) \/ (k = Len(s) - 1 /\ s[Len(s)] = "n")

\* re.match(r'^[a-zA-Z0-9_-]{3,32}$', s)
MatchUsername(s) ==
    \E k \in UsernameMin..UsernameMax :
        /\ k <= Len(s)
        /\ \A i \in 1..k : s[i] \in WordChars
        /\ AtDollar(s, k)

\* uuid_pattern: 8-4-4-4-12 lowercase hex digits
UuidDashes == {9, 14, 19, 24}
UuidLen == 36

\* re.match(uuid_pattern, s)
MatchUuid(s) ==
    /\ Len(s) >= UuidLen
    /\ \A i \in 1..UuidLen : IF i \in UuidDashes THEN s[i] = "-" ELSE s[i] = "h"
    /\ AtDollar(s, UuidLen)

Rep(c, n) == [i \in 1..n |-> c]

GoodUuid == [i \in 1..UuidLen |-> IF i \in UuidDashes THEN "-" ELSE "h"]

\* A User object. Keys and passwords are kept by their length, dates by
\* whether datetime.fromisoformat accepts them ("" is the empty string).
MkUser(username, id) ==
    [username |-> username, id |-> id, xray_uuid |-> GoodUuid,
     tuic_uuid |-> GoodUuid, wg_private_len |-> 44, wg_public_len |-> 44,
     trojan_len |-> 43, created_at |-> "iso", last_seen |-> ""]

\* User.validate: TRUE when no ValueError is raised
ValidateOk(u) ==
    /\ Len(u.username) > 0
    /\ MatchUsername(u.username)
    /\ MatchUuid(Lower(u.id))
    /\ MatchUuid(Lower(u.xray_uuid))
    /\ (Len(u.tuic_uuid) > 0 => MatchUuid(Lower(u.tuic_uuid)))
    /\ u.wg_private_len >= WgKeyMin
    /\ u.wg_public_len >= WgKeyMin
    /\ u.trojan_len >= TrojanMin
    /\ u.created_at \in {"", "iso"}
    /\ u.last_seen \in {"", "iso"}

Validate(u) == ValidateOk(u)


\* ------------------------------------------------------------------- state
VARIABLES
    clock,       \* datetime.utcnow(), in whole seconds
    users_file,  \* content of configs/users.json
    backup_dir,  \* backups/users_<kind>_<timestamp>.json: name -> content
    tmp,         \* the temp file each process has open in _atomic_write
    orphans,     \* temp files left behind by crashed processes
    lock,        \* the frame whose lock_fd holds flock(LOCK_EX) on .users.lock
    stack,       \* per process, the call stack of UserStorage methods
    calls,       \* top-level calls made so far
    crashes,     \* crashes so far
    archives,    \* backups/backup_<timestamp>.tar.gz: name -> archive
    metadata,    \* backups/backup_<timestamp>.json: the names that have one
    configs,     \* the generated files and trees under configs/
    running,     \* the services the lifecycle controller has up
    rstack,      \* the nested invocations of BackupManager.restore_backup
    scratch,     \* backups/temp_restore
    faults,      \* failures of the environment so far
    restores,    \* operator-initiated restores so far
    journal,     \* history: the archives admitted to backups/, in order
    result       \* what the last restore_backup returned to the operator

orchVars == <<archives, metadata, configs, running, rstack, scratch, faults, restores, journal, result>>
vars == <<clock, users_file, backup_dir, tmp, orphans, lock, stack, calls, crashes, orchVars>>

\* File contents. st is "absent" (no such file), "partial" (truncated or
\* half-written bytes, not well-formed JSON) or "json" (a complete document).
AbsentFile == [st |-> "absent", schema_version |-> 0, users |-> {}, server |-> "", last_modified |-> 0]
PartialFile == [st |-> "partial", schema_version |-> 0, users |-> {}, server |-> "", last_modified |-> 0]
Doc(ver, us, srv, now) == [st |-> "json", schema_version |-> ver, users |-> us, server |-> srv, last_modified |-> now]

Usernames(us) == {u.username : u \in us}

\* Snapshot file names users_<kind>_<timestamp>.json
SnapName(kind, ts) == [kind |-> kind, ts |-> ts]
NoName == SnapName("none", 0)

\* sorted() orders the names as strings: "users_auto_" < "users_pre-migration_"
\* < "users_pre-restore_", then the fixed-width timestamp.
KindRank(kind) == CASE kind = "auto" -> 1 [] kind = "pre-migration" -> 2 [] kind = "pre-restore" -> 3 [] OTHER -> 0
NameLess(a, b) == KindRank(a.kind) < KindRank(b.kind) \/ (a.kind = b.kind /\ a.ts < b.ts)

RECURSIVE SortNames(_)
SortNames(S) ==
    IF S = {} THEN <<>>
    ELSE LET m == CHOOSE x \in S : \A y \in S : ~NameLess(y, x)
         IN <<m>> \o SortNames(S \ {m})

Reverse(s) == [i \in 1..Len(s) |-> s[Len(s) + 1 - i]]

\* faulty variant of CreateBackup: the rotation unlinks backups[10:], the newest
CreateBackup_KeepOldest(dir, kind, content, now) ==
    LET name == SnapName(kind, now)
        d1 == [n \in DOMAIN dir \cup {name} |-> IF n = name THEN content ELSE dir[n]]
        autos == SortNames({n \in DOMAIN d1 : n.kind = "auto"})
        old == IF kind = "auto" /\ Len(autos) > AutoKeep
               THEN {autos[i] : i \in (AutoKeep + 1)..Len(autos)}
               ELSE {}
    IN [n \in (DOMAIN d1) \ old |-> d1[n]]

\* _create_backup(backup_type): copy the users file to a timestamped name
\* (replacing a file of that name), then keep the last 10 auto backups.
CreateBackup(dir, kind, content, now) ==
    LET name == SnapName(kind, now)
        d1 == [n \in DOMAIN dir \cup {name} |-> IF n = name THEN content ELSE dir[n]]
        autos == SortNames({n \in DOMAIN d1 : n.kind = "auto"})
        old == IF kind = "auto" /\ Len(autos) > AutoKeep
               THEN {autos[i] : i \in 1..(Len(autos) - AutoKeep)}
               ELSE {}
    IN [n \in (DOMAIN d1) \ old |-> d1[n]]

\* Lock holders: an open file description belongs to one frame of one process.
NoHolder == [p |-> "none", d |-> 0]
Holder(p, d) == [p |-> p, d |-> d]

\* A frame of the call stack: the method, the position in it and its locals.
Frame(fn, pc) ==
    [fn |-> fn, pc |-> pc,
     name |-> <<>>,         \* username argument
     users |-> {},          \* users argument, local or result
     bk |-> NoName,         \* backup_file
     backups |-> <<>>,      \* the sorted glob of _restore_from_latest_backup
     idx |-> 0,             \* its loop position
     held |-> FALSE,        \* lock_fd is not None and holds the lock
     exc |-> "none",        \* the exception being raised
     ok |-> FALSE,          \* boolean result
     saw |-> "",            \* what load_users found when it read the file
     data |-> AbsentFile,   \* the document handed to _atomic_write
     preFile |-> AbsentFile,\* users file as it was when save_users backed it up
     preNames |-> {},       \* snapshot names present before that backup
     from_version |-> 0]    \* from_version argument of _migrate_data

Idle(p) == stack[p] = <<>>
Depth(p) == Len(stack[p])
Top(p) == stack[p][Len(stack[p])]
At(p, fn, pc) == ~Idle(p) /\ Top(p).fn = fn /\ Top(p).pc = pc
SetTop(p, f) == [stack EXCEPT ![p] = [stack[p] EXCEPT ![Len(stack[p])] = f]]
SetTopPush(p, f, g) == [stack EXCEPT ![p] = Append([stack[p] EXCEPT ![Len(stack[p])] = f], g)]

\* ------------------------------------------------------ inputs of the store
Alice == MkUser(Rep("w", 5), GoodUuid)
Bob == MkUser(Rep("w", 3), GoodUuid)
\* a two-character username
Shorty == MkUser(Rep("w", 2), GoodUuid)

\* the users dictionaries callers pass to save_users
SaveInputs == {{Alice}, {Alice, Shorty}}
\* the usernames callers pass to add_user and remove_user
NameInputs == {Alice.username, Bob.username}
\* the snapshot names callers may pass to restore_from_backup: the auto
\* snapshot of second 0, and a file that does not exist
BackupInputs == {SnapName("auto", 0), SnapName("manual", 0)}


\* ------------------------------------------------- top-level calls (callers)
\* load_users()
CallLoad(p) ==
    /\ Idle(p) /\ calls < MaxCalls
    /\ stack' = [stack EXCEPT ![p] = <<Frame("load_users", "acquire")>>]
    /\ calls' = calls + 1
    /\ UNCHANGED <<orchVars, clock, users_file, backup_dir, tmp, orphans, lock, crashes>>

\* save_users(users)
CallSave(p, us) ==
    /\ Idle(p) /\ calls < MaxCalls
    /\ stack' = [stack EXCEPT ![p] = <<[Frame("save_users", "acquire") EXCEPT !.users = us]>>]
    /\ calls' = calls + 1
    /\ UNCHANGED <<orchVars, clock, users_file, backup_dir, tmp, orphans, lock, crashes>>

\* add_user(username): its first statement calls load_users()
CallAdd(p, name) ==
    /\ Idle(p) /\ calls < MaxCalls
    /\ stack' = [stack EXCEPT ![p] = <<[Frame("add_user", "load") EXCEPT !.name = name],
                                        Frame("load_users", "acquire")>>]
    /\ calls' = calls + 1
    /\ UNCHANGED <<orchVars, clock, users_file, backup_dir, tmp, orphans, lock, crashes>>

\* remove_user(username): its first statement calls load_users()
CallRemove(p, name) ==
    /\ Idle(p) /\ calls < MaxCalls
    /\ stack' = [stack EXCEPT ![p] = <<[Frame("remove_user", "load") EXCEPT !.name = name],
                                        Frame("load_users", "acquire")>>]
    /\ calls' = calls + 1
    /\ UNCHANGED <<orchVars, clock, users_file, backup_dir, tmp, orphans, lock, crashes>>

\* restore_from_backup(backup_file)
CallRestoreFromBackup(p, b) ==
    /\ Idle(p) /\ calls < MaxCalls
    /\ stack' = [stack EXCEPT ![p] = <<[Frame("restore_from_backup", "acquire") EXCEPT !.bk = b]>>]
    /\ calls' = calls + 1
    /\ UNCHANGED <<orchVars, clock, users_file, backup_dir, tmp, orphans, lock, crashes>>

\* ------------------------------------------------------------------ locking
\* where each method continues once lock_fd = self._acquire_lock() returns
AfterAcquire(fn) ==
    CASE fn = "load_users" -> "read"
      [] fn = "save_users" -> "validate"
      [] fn = "restore_from_backup" -> "check"

\* _acquire_lock: open(.users.lock) gives a new open file description and
\* flock(LOCK_EX) blocks while any other description holds the lock, one of
\* the same process included.
AcquireLock(p) ==
    /\ ~Idle(p) /\ Top(p).pc = "acquire"
    /\ lock = NoHolder
    /\ lock' = Holder(p, Depth(p))
    /\ stack' = SetTop(p, [Top(p) EXCEPT !.held = TRUE, !.pc = AfterAcquire(Top(p).fn)])
    /\ UNCHANGED <<orchVars, clock, users_file, backup_dir, tmp, orphans, calls, crashes>>

\* the value a method returns from its finally block: restore_from_backup
\* turns every exception into False, load_users has caught them all,
\* save_users re-raises
ExcAfterFinally(f) == IF f.fn = "restore_from_backup" THEN "none" ELSE f.exc

\* faulty variant of Finally: the lock is released at the end of the try block
\* only, so not when an exception is being raised
Finally_ReleaseOnSuccess(p) ==
    /\ ~Idle(p) /\ Top(p).pc = "finally"
    /\ lock' = IF Top(p).held /\ Top(p).exc = "none" THEN NoHolder ELSE lock
    /\ stack' = SetTop(p, [Top(p) EXCEPT !.held = Top(p).held /\ Top(p).exc # "none",
                                         !.pc = "return",
                                         !.exc = ExcAfterFinally(Top(p)),
                                         !.ok = Top(p).ok /\ Top(p).exc = "none"])
    /\ UNCHANGED <<orchVars, clock, users_file, backup_dir, tmp, orphans, calls, crashes>>

\* finally: self._release_lock(lock_fd)
Finally(p) ==
    /\ ~Idle(p) /\ Top(p).pc = "finally"
    /\ lock' = IF Top(p).held THEN NoHolder ELSE lock
    /\ stack' = SetTop(p, [Top(p) EXCEPT !.held = FALSE, !.pc = "return",
                                         !.exc = ExcAfterFinally(Top(p)),
                                         !.ok = Top(p).ok /\ Top(p).exc = "none"])
    /\ UNCHANGED <<orchVars, clock, users_file, backup_dir, tmp, orphans, calls, crashes>>

\* --------------------------------------------------------------- load_users
\* the records of a document that pass User.from_dict
LoadedUsers(doc) == {u \in doc.users : Validate(u)}

\* the frame that runs _restore_from_latest_backup, with its sorted glob
FallbackFrame == [Frame("_restore_from_latest_backup", "loop")
                     EXCEPT !.backups = Reverse(SortNames(DOMAIN backup_dir)), !.idx = 1]

\* open(users_file) and json.load, and the except clauses
LoadRead(p) ==
    /\ At(p, "load_users", "read")
    /\ \E io \in {"ok", "error"} :
        stack' =
          IF io = "error"
          THEN SetTop(p, [Top(p) EXCEPT !.saw = "ioerror", !.users = {}, !.pc = "finally"])
          ELSE CASE users_file.st = "absent" ->
                      SetTop(p, [Top(p) EXCEPT !.saw = "missing", !.users = {}, !.pc = "finally"])
                 [] users_file.st = "partial" ->
                      SetTopPush(p, [Top(p) EXCEPT !.saw = "corrupt", !.pc = "fallback"], FallbackFrame)
                 [] users_file.st = "json" ->
                      SetTop(p, [Top(p) EXCEPT !.saw = "ok", !.users = LoadedUsers(users_file),
                                               !.pc = "finally"])
    /\ UNCHANGED <<orchVars, clock, users_file, backup_dir, tmp, orphans, lock, calls, crashes>>

\* _restore_from_latest_backup: the head of the for loop
FallbackLoop(p) ==
    /\ At(p, "_restore_from_latest_backup", "loop")
    /\ stack' = IF Top(p).idx > Len(Top(p).backups)
                THEN SetTop(p, [Top(p) EXCEPT !.users = {}, !.pc = "return"])
                ELSE SetTop(p, [Top(p) EXCEPT !.bk = Top(p).backups[Top(p).idx], !.pc = "copy_begin"])
    /\ UNCHANGED <<orchVars, clock, users_file, backup_dir, tmp, orphans, lock, calls, crashes>>

\* shutil.copy2(backup_file, self.users_file), first half: the source is
\* opened (FileNotFoundError when it is gone) and the destination truncated
CopyBegin(p) ==
    /\ ~Idle(p) /\ Top(p).pc = "copy_begin"
    /\ IF Top(p).bk \in DOMAIN backup_dir
       THEN /\ users_file' = PartialFile
            /\ stack' = SetTop(p, [Top(p) EXCEPT !.data = backup_dir[Top(p).bk], !.pc = "copy_end"])
       ELSE /\ users_file' = users_file
            /\ stack' = IF Top(p).fn = "_restore_from_latest_backup"
                        THEN SetTop(p, [Top(p) EXCEPT !.idx = Top(p).idx + 1, !.pc = "loop"])
                        ELSE SetTop(p, [Top(p) EXCEPT !.exc = "FileNotFoundError", !.pc = "finally"])
    /\ UNCHANGED <<orchVars, clock, backup_dir, tmp, orphans, lock, calls, crashes>>

\* shutil.copy2, second half: the bytes are written; then the caller's next
\* statement, users = self.load_users()
CopyEnd(p) ==
    /\ ~Idle(p) /\ Top(p).pc = "copy_end"
    /\ users_file' = Top(p).data
    /\ stack' = SetTopPush(p, [Top(p) EXCEPT !.pc = "load"], Frame("load_users", "acquire"))
    /\ UNCHANGED <<orchVars, clock, backup_dir, tmp, orphans, lock, calls, crashes>>


\* --------------------------------------------------------------- save_users
\* for username, user in users.items(): user.validate()
SaveValidate(p) ==
    /\ At(p, "save_users", "validate")
    /\ stack' = IF \A u \in Top(p).users : Validate(u)
                THEN SetTop(p, [Top(p) EXCEPT !.pc = "backup"])
                ELSE SetTop(p, [Top(p) EXCEPT !.exc = "ValueError", !.pc = "finally"])
    /\ UNCHANGED <<orchVars, clock, users_file, backup_dir, tmp, orphans, lock, calls, crashes>>

\* the document save_users builds: its own schema version, the users given,
\* the server section found on disk, the time of the save
SaveData(us, existing, now) ==
    Doc(SCHEMA_VERSION, us, IF existing.st = "json" THEN existing.server ELSE "", now)

\* if users_file.exists(): _create_backup("auto"); then existing_data =
\* json.load(users_file), and data is built
SaveBackup(p) ==
    /\ At(p, "save_users", "backup")
    /\ backup_dir' = IF users_file.st # "absent"
                     THEN CreateBackup(backup_dir, "auto", users_file, clock)
                     ELSE backup_dir
    /\ stack' = IF users_file.st = "partial"
                THEN SetTop(p, [Top(p) EXCEPT !.exc = "JSONDecodeError", !.pc = "finally",
                                              !.preFile = users_file, !.preNames = DOMAIN backup_dir])
                ELSE SetTop(p, [Top(p) EXCEPT !.data = SaveData(Top(p).users, users_file, clock),
                                              !.preFile = users_file, !.preNames = DOMAIN backup_dir,
                                              !.pc = "write_tmp"])
    /\ UNCHANGED <<orchVars, clock, users_file, tmp, orphans, lock, calls, crashes>>

\* faulty variant of AtomicWriteTemp: json.dump straight into the target file
AtomicWriteTemp_InPlace(p) ==
    /\ ~Idle(p) /\ Top(p).pc = "write_tmp"
    /\ users_file' = PartialFile
    /\ tmp' = [tmp EXCEPT ![p] = PartialFile]
    /\ stack' = SetTop(p, [Top(p) EXCEPT !.pc = "write_sync"])
    /\ UNCHANGED <<orchVars, clock, backup_dir, orphans, lock, calls, crashes>>

\* _atomic_write: tempfile.mkstemp in the directory of the target and the
\* first bytes of json.dump
AtomicWriteTemp(p) ==
    /\ ~Idle(p) /\ Top(p).pc = "write_tmp"
    /\ tmp' = [tmp EXCEPT ![p] = PartialFile]
    /\ stack' = SetTop(p, [Top(p) EXCEPT !.pc = "write_sync"])
    /\ UNCHANGED <<orchVars, clock, users_file, backup_dir, orphans, lock, calls, crashes>>

\* _atomic_write: the rest of json.dump, flush and fsync; an exception
\* unlinks the temp file and is raised again
AtomicWriteSync(p) ==
    /\ ~Idle(p) /\ Top(p).pc = "write_sync"
    /\ \E io \in {"ok", "error"} :
        IF io = "ok"
        THEN /\ tmp' = [tmp EXCEPT ![p] = Top(p).data]
             /\ stack' = SetTop(p, [Top(p) EXCEPT !.pc = "rename"])
        ELSE /\ tmp' = [tmp EXCEPT ![p] = AbsentFile]
             /\ stack' = SetTop(p, [Top(p) EXCEPT !.exc = "IOError", !.pc = "finally"])
    /\ UNCHANGED <<orchVars, clock, users_file, backup_dir, orphans, lock, calls, crashes>>

\* _atomic_write: Path(temp_path).replace(file_path)
AtomicWriteRename(p) ==
    /\ ~Idle(p) /\ Top(p).pc = "rename"
    /\ users_file' = tmp[p]
    /\ tmp' = [tmp EXCEPT ![p] = AbsentFile]
    /\ stack' = SetTop(p, [Top(p) EXCEPT !.ok = TRUE, !.pc = "finally"])
    /\ UNCHANGED <<orchVars, clock, backup_dir, orphans, lock, calls, crashes>>

\* ------------------------------------------------------ restore_from_backup
\* backup_file.exists(), the pre-restore backup, json.load(backup_file)
RestoreCheck(p) ==
    /\ At(p, "restore_from_backup", "check")
    /\ IF Top(p).bk \notin DOMAIN backup_dir
       THEN /\ backup_dir' = backup_dir
            /\ stack' = SetTop(p, [Top(p) EXCEPT !.exc = "FileNotFoundError", !.pc = "finally"])
       ELSE LET dir == IF users_file.st # "absent"
                       THEN CreateBackup(backup_dir, "pre-restore", users_file, clock)
                       ELSE backup_dir
            IN /\ backup_dir' = dir
               /\ stack' = IF dir[Top(p).bk].st = "json"
                           THEN SetTop(p, [Top(p) EXCEPT !.pc = "copy_begin"])
                           ELSE SetTop(p, [Top(p) EXCEPT !.exc = "JSONDecodeError", !.pc = "finally"])
    /\ UNCHANGED <<orchVars, clock, users_file, tmp, orphans, lock, calls, crashes>>

\* ---------------------------------------------------- add_user, remove_user
\* User(...) as add_user constructs it: generated credentials, and the
\* WireGuard public key still empty when __post_init__ validates
NewUser(name) == [MkUser(name, GoodUuid) EXCEPT !.wg_public_len = 0]
\* user.wireguard_public_key = self._generate_wireguard_public_key(...)
WithPublicKey(u) == [u EXCEPT !.wg_public_len = 44]

\* add_user after load_users: the duplicate check, the construction of the
\* User (whose __post_init__ validates), and the call of save_users
AddCheck(p) ==
    /\ At(p, "add_user", "check")
    /\ stack' =
         IF Top(p).name \in Usernames(Top(p).users) \/ ~Validate(NewUser(Top(p).name))
         THEN SetTop(p, [Top(p) EXCEPT !.exc = "ValueError", !.pc = "return"])
         ELSE SetTopPush(p, [Top(p) EXCEPT !.pc = "save"],
                  [Frame("save_users", "acquire") EXCEPT
                        !.users = Top(p).users \cup {WithPublicKey(NewUser(Top(p).name))}])
    /\ UNCHANGED <<orchVars, clock, users_file, backup_dir, tmp, orphans, lock, calls, crashes>>

\* remove_user after load_users: return False, or del users[username] and
\* the call of save_users
RemoveCheck(p) ==
    /\ At(p, "remove_user", "check")
    /\ stack' =
         IF Top(p).name \notin Usernames(Top(p).users)
         THEN SetTop(p, [Top(p) EXCEPT !.ok = FALSE, !.pc = "return"])
         ELSE SetTopPush(p, [Top(p) EXCEPT !.pc = "save"],
                  [Frame("save_users", "acquire") EXCEPT
                        !.users = {u \in Top(p).users : u.username # Top(p).name}])
    /\ UNCHANGED <<orchVars, clock, users_file, backup_dir, tmp, orphans, lock, calls, crashes>>

\* ------------------------------------------------------------------ returns
\* the caller's frame once the callee (done) has returned or raised
Resume(caller, done) ==
    CASE caller.fn \in {"add_user", "remove_user"} /\ caller.pc = "load" ->
             [caller EXCEPT !.users = done.users, !.pc = "check"]
      [] caller.fn \in {"add_user", "remove_user"} /\ caller.pc = "save" ->
             [caller EXCEPT !.exc = done.exc, !.ok = (done.exc = "none"), !.pc = "return"]
      [] caller.fn = "load_users" /\ caller.pc = "fallback" ->
             [caller EXCEPT !.users = done.users, !.pc = "finally"]
      [] caller.fn = "_restore_from_latest_backup" /\ caller.pc = "load" ->
             IF done.exc = "none"
             THEN [caller EXCEPT !.users = done.users, !.pc = "return"]
             ELSE [caller EXCEPT !.idx = caller.idx + 1, !.pc = "loop"]
      [] caller.fn = "restore_from_backup" /\ caller.pc = "load" ->
             [caller EXCEPT !.ok = (done.exc = "none"), !.exc = done.exc, !.pc = "finally"]
      [] caller.fn = "_migrate_data" /\ caller.pc = "write" ->
             IF done.exc = "none"
             THEN [caller EXCEPT !.ok = TRUE, !.pc = "return"]
             ELSE [caller EXCEPT !.exc = done.exc, !.pc = "rollback_begin"]
      [] caller.fn = "_migrate_data_if_needed" /\ caller.pc = "migrate" ->
             [caller EXCEPT !.saw = done.exc, !.preFile = done.preFile, !.pc = "return"]

\* a method returns (or raises) to its caller; a top-level call is over
Return(p) ==
    /\ ~Idle(p) /\ Top(p).pc = "return"
    /\ stack' = IF Depth(p) = 1
                THEN [stack EXCEPT ![p] = <<>>]
                ELSE [stack EXCEPT ![p] =
                        Append(SubSeq(stack[p], 1, Depth(p) - 2),
                               Resume(stack[p][Depth(p) - 1], Top(p)))]
    /\ UNCHANGED <<orchVars, clock, users_file, backup_dir, tmp, orphans, lock, calls, crashes>>

\* ---------------------------------------------------------------- migration
\* a users entry of a legacy document whose value is no JSON object
ScalarEntry(name) == [MkUser(name, <<>>) EXCEPT !.created_at = "not-an-object"]
IsObject(u) == u.created_at # "not-an-object"

\* the 0 -> 1 step of _migrate_data on the loaded data: schema_version is set
\* and the missing Sing-box fields of every user are generated (fields the
\* User records here do not carry); other versions are written back as read
Transform(doc, from_version, to_version) ==
    IF from_version = 0 /\ to_version >= 1
    THEN [doc EXCEPT !.schema_version = 1]
    ELSE doc

\* `"shadowtls_password" not in user_data` and the assignment after it raise
\* TypeError on an entry that is no object
TransformRaises(doc, from_version, to_version) ==
    from_version = 0 /\ to_version >= 1 /\ \E u \in doc.users : ~IsObject(u)

\* UserStorage(config_dir) over an existing users file: __init__ calls
\* _migrate_data_if_needed()
CallInit(p) ==
    /\ Idle(p) /\ calls < MaxCalls
    /\ users_file.st # "absent"
    /\ stack' = [stack EXCEPT ![p] = <<Frame("_migrate_data_if_needed", "check")>>]
    /\ calls' = calls + 1
    /\ UNCHANGED <<orchVars, clock, users_file, backup_dir, tmp, orphans, lock, crashes>>

\* _migrate_data_if_needed: json.load and the comparison of versions; an
\* exception is caught and printed
MigrateCheck(p) ==
    /\ At(p, "_migrate_data_if_needed", "check")
    /\ stack' =
         IF users_file.st # "json"
         THEN SetTop(p, [Top(p) EXCEPT !.saw = "JSONDecodeError", !.pc = "return"])
         ELSE IF users_file.schema_version < SCHEMA_VERSION
              THEN SetTopPush(p, [Top(p) EXCEPT !.pc = "migrate"],
                              [Frame("_migrate_data", "backup")
                                 EXCEPT !.from_version = users_file.schema_version])
              ELSE SetTop(p, [Top(p) EXCEPT !.saw = "none", !.pc = "return"])
    /\ UNCHANGED <<orchVars, clock, users_file, backup_dir, tmp, orphans, lock, calls, crashes>>

\* _migrate_data: backup_file = self._create_backup("pre-migration"), before
\* the try block
MigrateBackup(p) ==
    /\ At(p, "_migrate_data", "backup")
    /\ IF users_file.st = "absent"
       THEN /\ backup_dir' = backup_dir
            /\ stack' = SetTop(p, [Top(p) EXCEPT !.exc = "FileNotFoundError", !.pc = "return"])
       ELSE /\ backup_dir' = CreateBackup(backup_dir, "pre-migration", users_file, clock)
            /\ stack' = SetTop(p, [Top(p) EXCEPT !.bk = SnapName("pre-migration", clock),
                                                 !.preFile = users_file,
                                                 !.pc = "transform"])
    /\ UNCHANGED <<orchVars, clock, users_file, tmp, orphans, lock, calls, crashes>>

\* _migrate_data: json.load, the migration logic, then the call of
\* _atomic_write; an exception goes to the except clause
MigrateTransform(p) ==
    /\ At(p, "_migrate_data", "transform")
    /\ stack' =
         IF users_file.st # "json"
         THEN SetTop(p, [Top(p) EXCEPT !.exc = "JSONDecodeError", !.pc = "rollback_begin"])
         ELSE IF TransformRaises(users_file, Top(p).from_version, SCHEMA_VERSION)
              THEN SetTop(p, [Top(p) EXCEPT !.exc = "TypeError", !.pc = "rollback_begin"])
              ELSE SetTopPush(p, [Top(p) EXCEPT !.pc = "write"],
                              [Frame("_atomic_write", "write_tmp")
                                 EXCEPT !.data = Transform(users_file, Top(p).from_version,
                                                           SCHEMA_VERSION)])
    /\ UNCHANGED <<orchVars, clock, users_file, backup_dir, tmp, orphans, lock, calls, crashes>>

\* except: shutil.copy2(backup_file, self.users_file), first half: the
\* users file is opened for writing and truncated
MigrateRollbackBegin(p) ==
    /\ At(p, "_migrate_data", "rollback_begin")
    /\ IF Top(p).bk \in DOMAIN backup_dir
       THEN /\ users_file' = PartialFile
            /\ stack' = SetTop(p, [Top(p) EXCEPT !.data = backup_dir[Top(p).bk],
                                                 !.pc = "rollback_end"])
       ELSE /\ users_file' = users_file
            /\ stack' = SetTop(p, [Top(p) EXCEPT !.exc = "FileNotFoundError", !.pc = "return"])
    /\ UNCHANGED <<orchVars, clock, backup_dir, tmp, orphans, lock, calls, crashes>>

\* shutil.copy2, second half: the bytes are written; then raise
MigrateRollbackEnd(p) ==
    /\ At(p, "_migrate_data", "rollback_end")
    /\ users_file' = Top(p).data
    /\ stack' = SetTop(p, [Top(p) EXCEPT !.pc = "return"])
    /\ UNCHANGED <<orchVars, clock, backup_dir, tmp, orphans, lock, calls, crashes>>

\* ------------------------------------------------------------- environment
\* the process dies: its descriptors are closed (flock is released), its
\* temp file stays in the directory
Crash(p) ==
    /\ ~Idle(p) /\ crashes < MaxCrashes
    /\ stack' = [stack EXCEPT ![p] = <<>>]
    /\ lock' = IF lock.p = p THEN NoHolder ELSE lock
    /\ orphans' = IF tmp[p].st # "absent" THEN orphans \cup {tmp[p]} ELSE orphans
    /\ tmp' = [tmp EXCEPT ![p] = AbsentFile]
    /\ crashes' = crashes + 1
    /\ UNCHANGED <<orchVars, clock, users_file, backup_dir, calls>>

\* a second passes
Tick ==
    /\ clock < MaxClock
    /\ clock' = clock + 1
    /\ UNCHANGED <<orchVars, users_file, backup_dir, tmp, orphans, lock, stack, calls, crashes>>


\* ============================================================ BackupManager
\* services_to_stop
Services == {"xray", "trojan", "singbox", "wireguard"}

\* The generated items under configs/ besides users.json: "xray.json" stands
\* for the server config files (xray.json, trojan.json, singbox.json), which
\* restore copies over the live file; "clients" for the trees (wireguard/,
\* clients/), which restore removes and copies anew. "absent" is no file.
ConfigItems == {"xray.json", "clients"}
NoConfigs == [i \in ConfigItems |-> "absent"]

\* Archive names backup_<timestamp>.tar.gz; up marks an uploaded archive
ArchName(ts, up) == [ts |-> ts, up |-> up]
NoArch == ArchName(-1, FALSE)
ArchLess(a, b) == a.ts < b.ts \/ (a.ts = b.ts /\ ~a.up /\ b.up)

\* An archive: wf is whether tarfile can open it; users and configs are the
\* members configs/users.json and configs/<item>
Archive(us, cf) == [wf |-> TRUE, users |-> us, configs |-> cf]
Garbage == [wf |-> FALSE, users |-> AbsentFile, configs |-> NoConfigs]
EmptyArchive == Archive(AbsentFile, NoConfigs)

RECURSIVE SortArch(_)
SortArch(S) ==
    IF S = {} THEN <<>>
    ELSE LET m == CHOOSE x \in S : \A y \in S : ~ArchLess(y, x)
         IN <<m>> \o SortArch(S \ {m})

\* _cleanup_old_backups(keep): unlink the archives before the last keep of
\* the sorted glob. (The metadata path it derives, with_suffix('.json') of
\* backup_X.tar.gz, is backup_X.tar.json, which never exists.)
CleanupOldBackups(arch, keep) ==
    LET names == SortArch(DOMAIN arch)
        old == IF Len(names) > keep THEN {names[i] : i \in 1..(Len(names) - keep)} ELSE {}
    IN [n \in (DOMAIN arch) \ old |-> arch[n]]

\* create_backup: the archive of the live tree under the name of this second
\* (tarfile.open(..., "w:gz") replaces a file of that name), then the cleanup
CreateArchive(arch, us, cf, now) ==
    LET name == ArchName(now, FALSE)
        a1 == [n \in (DOMAIN arch) \cup {name} |-> IF n = name THEN Archive(us, cf) ELSE arch[n]]
    IN CleanupOldBackups(a1, BackupKeep)

\* create_backup raising after tarfile.open created the file
CreateArchiveFailed(arch, now) ==
    LET name == ArchName(now, FALSE)
    IN [n \in (DOMAIN arch) \cup {name} |-> IF n = name THEN EmptyArchive ELSE arch[n]]

\* faulty variant of ValidateBackupIntegrity: the file exists, tarfile never opens it
ValidateBackupIntegrity_ExistsOnly(arch, name) == name \in DOMAIN arch

\* validate_backup_integrity(backup_name)['valid']
ValidateBackupIntegrity(arch, name) == name \in DOMAIN arch /\ arch[name].wf

\* the result accumulator and position of one restore_backup invocation
RFrame(target, mgr) ==
    [pc |-> "validate", target |-> target, mgr |-> mgr,
     safety_backup |-> NoArch, services_stopped |-> {}, services_restarted |-> {},
     files_restored |-> {}, errors |-> {}, success |-> FALSE, message |-> "",
     pre_users |-> AbsentFile,   \* history: users.json when the operator called
     pre_configs |-> NoConfigs,  \* history: the other items at that moment
     again |-> FALSE,            \* history: the operator repeats the last call
     validated |-> Garbage]      \* history: the target as step 1 found it

\* the part of the result dictionary the operator acts on
Outcome(f) ==
    [target |-> f.target, mgr |-> f.mgr, success |-> f.success, message |-> f.message,
     errors |-> f.errors, services_stopped |-> f.services_stopped,
     services_restarted |-> f.services_restarted]
NoResult ==
    Outcome([target |-> NoArch, mgr |-> FALSE, success |-> FALSE, message |-> "",
             errors |-> {}, services_stopped |-> {}, services_restarted |-> {}])

RTop == rstack[Len(rstack)]
RAt(pc) == rstack # <<>> /\ RTop.pc = pc
RSetTop(f) == [rstack EXCEPT ![Len(rstack)] = f]
RSetTopPush(f, g) == Append([rstack EXCEPT ![Len(rstack)] = f], g)

\* restore_backup(backup_name, service_manager) called by the operator
CallRestoreBackup(target, mgr) ==
    /\ rstack = <<>> /\ restores < MaxRestores
    /\ rstack' = <<[RFrame(target, mgr) EXCEPT !.pre_users = users_file, !.pre_configs = configs]>>
    /\ restores' = restores + 1
    /\ UNCHANGED <<result, journal, clock, users_file, backup_dir, tmp, orphans, lock, stack, calls, crashes,
                   archives, metadata, configs, running, scratch, faults>>

\* Step 1: backup_path.exists() and validate_backup_integrity
RestoreValidate ==
    /\ RAt("validate")
    /\ rstack' = IF ValidateBackupIntegrity(archives, RTop.target)
                 THEN RSetTop([RTop EXCEPT !.validated = archives[RTop.target], !.pc = "safety"])
                 ELSE RSetTop([RTop EXCEPT !.pc = "return",
                        !.message = IF RTop.target \in DOMAIN archives
                                    THEN "validation failed" ELSE "not found"])
    /\ UNCHANGED <<result, journal, clock, users_file, backup_dir, tmp, orphans, lock, stack, calls, crashes,
                   archives, metadata, configs, running, scratch, faults, restores>>

\* faulty variant of RestoreSafety: a failed safety backup is recorded as an error
\* and the restore goes on
RestoreSafety_GoOn ==
    /\ RAt("safety")
    /\ \E out \in {"ok", "raise-early", "raise-late"} :
        /\ out # "ok" => faults < MaxFaults
        /\ faults' = IF out = "ok" THEN faults ELSE faults + 1
        /\ archives' = CASE out = "ok" -> CreateArchive(archives, users_file, configs, clock)
                         [] out = "raise-late" -> CreateArchiveFailed(archives, clock)
                         [] OTHER -> archives
        /\ metadata' = IF out = "ok" THEN metadata \cup {ArchName(clock, FALSE)} ELSE metadata
        /\ rstack' = IF out = "ok"
                     THEN RSetTop([RTop EXCEPT !.safety_backup = ArchName(clock, FALSE), !.pc = "stop"])
                     ELSE RSetTop([RTop EXCEPT !.errors = @ \cup {"safety backup"}, !.pc = "stop"])
    /\ UNCHANGED <<result, journal, clock, users_file, backup_dir, tmp, orphans, lock, stack, calls, crashes,
                   configs, running, scratch, restores>>

\* Step 2: create_backup("Pre-restore safety backup (automatic)"); when it
\* raises (before or after it created the archive file) restore returns
RestoreSafety ==
    /\ RAt("safety")
    /\ \E out \in {"ok", "raise-early", "raise-late"} :
        /\ out # "ok" => faults < MaxFaults
        /\ faults' = IF out = "ok" THEN faults ELSE faults + 1
        /\ archives' = CASE out = "ok" -> CreateArchive(archives, users_file, configs, clock)
                         [] out = "raise-late" -> CreateArchiveFailed(archives, clock)
                         [] OTHER -> archives
        /\ metadata' = IF out = "ok" THEN metadata \cup {ArchName(clock, FALSE)} ELSE metadata
        /\ rstack' = IF out = "ok"
                     THEN RSetTop([RTop EXCEPT !.safety_backup = ArchName(clock, FALSE), !.pc = "stop"])
                     ELSE RSetTop([RTop EXCEPT !.errors = @ \cup {"safety backup"},
                                               !.message = "no safety backup", !.pc = "return"])
    /\ UNCHANGED <<result, journal, clock, users_file, backup_dir, tmp, orphans, lock, stack, calls, crashes,
                   configs, running, scratch, restores>>

\* Step 3: stop_service for each of the services, when a service manager
\* was given; ss are the services whose stop returned True
RestoreStop ==
    /\ RAt("stop")
    /\ IF RTop.mgr
       THEN \E ss \in SUBSET Services :
              /\ faults + Cardinality(Services \ ss) <= MaxFaults
              /\ faults' = faults + Cardinality(Services \ ss)
              /\ running' = [s \in Services |-> IF s \in ss THEN FALSE ELSE running[s]]
              /\ rstack' = RSetTop([RTop EXCEPT !.services_stopped = ss, !.pc = "extract",
                              !.errors = IF ss = Services THEN @ ELSE @ \cup {"stop"}])
       ELSE /\ rstack' = RSetTop([RTop EXCEPT !.pc = "extract"])
            /\ UNCHANGED <<running, faults>>
    /\ UNCHANGED <<result, journal, clock, users_file, backup_dir, tmp, orphans, lock, stack, calls, crashes,
                   archives, metadata, configs, scratch, restores>>

\* the frame after the except clause at the end of restore_backup, and the
\* rollback invocation it starts when there is a safety backup and a manager
AfterException(f) ==
    IF f.safety_backup # NoArch /\ f.mgr
    THEN <<[f EXCEPT !.message = "error", !.errors = @ \cup {"exception", "rollback"},
                     !.pc = "rollback"],
           RFrame(f.safety_backup, f.mgr)>>
    ELSE <<[f EXCEPT !.message = "error", !.errors = @ \cup {"exception"}, !.pc = "return"]>>

\* Step 4: temp_restore is made and the archive extracted into it; tarfile
\* raises when the archive is gone or cannot be read, and the finally
\* clause removes temp_restore
RestoreExtract ==
    /\ RAt("extract")
    /\ \E io \in {"ok", "error"} :
        /\ io = "error" => faults < MaxFaults
        /\ faults' = IF io = "error" THEN faults + 1 ELSE faults
        /\ IF io = "ok" /\ ValidateBackupIntegrity(archives, RTop.target)
           THEN /\ scratch' = archives[RTop.target]
                /\ rstack' = RSetTop([RTop EXCEPT !.pc = "apply_users"])
           ELSE /\ scratch' = Garbage
                /\ rstack' = SubSeq(rstack, 1, Len(rstack) - 1) \o AfterException(RTop)
    /\ UNCHANGED <<result, journal, clock, users_file, backup_dir, tmp, orphans, lock, stack, calls, crashes,
                   archives, metadata, configs, running, restores>>

\* whether temp_restore/configs exists
HasConfigsDir(a) == a.users.st # "absent" \/ \E i \in ConfigItems : a.configs[i] # "absent"

\* shutil.copy2(users_file, config_dir / "users.json"), first half: the
\* live file is opened for writing and truncated
RestoreApplyUsersBegin ==
    /\ RAt("apply_users")
    /\ IF scratch.users.st # "absent"
       THEN /\ users_file' = PartialFile
            /\ rstack' = RSetTop([RTop EXCEPT !.pc = "apply_users_end"])
       ELSE /\ users_file' = users_file
            /\ rstack' = RSetTop([RTop EXCEPT !.pc = "apply_configs"])
    /\ UNCHANGED <<result, journal, clock, backup_dir, tmp, orphans, lock, stack, calls, crashes,
                   archives, metadata, configs, running, scratch, faults, restores>>

\* shutil.copy2, second half: the bytes of the archived users.json
RestoreApplyUsersEnd ==
    /\ RAt("apply_users_end")
    /\ users_file' = scratch.users
    /\ rstack' = RSetTop([RTop EXCEPT !.files_restored = @ \cup {"users.json"}, !.pc = "apply_configs"])
    /\ UNCHANGED <<result, journal, clock, backup_dir, tmp, orphans, lock, stack, calls, crashes,
                   archives, metadata, configs, running, scratch, faults, restores>>

\* the other items: each one the archive holds replaces the live one, the
\* others are left as they are; then the finally clause removes temp_restore
RestoreApplyConfigs ==
    /\ RAt("apply_configs")
    /\ configs' = [i \in ConfigItems |->
                     IF scratch.configs[i] # "absent" THEN scratch.configs[i] ELSE configs[i]]
    /\ rstack' = RSetTop([RTop EXCEPT
                    !.files_restored = @ \cup {i \in ConfigItems : scratch.configs[i] # "absent"},
                    !.pc = "start"])
    /\ scratch' = Garbage
    /\ UNCHANGED <<result, journal, clock, users_file, backup_dir, tmp, orphans, lock, stack, calls, crashes,
                   archives, metadata, running, faults, restores>>

\* Step 5 and the outcome: start_service for each stopped service (rs are
\* those whose start returned True); with 2 or more not restarted, the
\* recursive restore_backup(result['safety_backup'], service_manager)
RestoreStart ==
    /\ RAt("start")
    /\ IF RTop.mgr /\ RTop.services_stopped # {}
       THEN \E rs \in SUBSET RTop.services_stopped :
              LET critical_failures == RTop.services_stopped \ rs
                  f1 == [RTop EXCEPT !.services_restarted = rs,
                            !.errors = IF critical_failures = {} THEN @ ELSE @ \cup {"restart", "critical"}]
              IN /\ faults + Cardinality(critical_failures) <= MaxFaults
                 /\ faults' = faults + Cardinality(critical_failures)
                 /\ running' = [s \in Services |-> IF s \in rs THEN TRUE ELSE running[s]]
                 /\ rstack' =
                      IF Cardinality(critical_failures) >= RollbackThreshold
                      THEN IF f1.safety_backup # NoArch
                           THEN RSetTopPush([f1 EXCEPT !.message = "consider rollback",
                                                  !.errors = @ \cup {"rollback"}, !.pc = "rollback"],
                                            RFrame(f1.safety_backup, f1.mgr))
                           ELSE RSetTop([f1 EXCEPT !.message = "consider rollback", !.pc = "return"])
                      ELSE RSetTop([f1 EXCEPT !.success = TRUE, !.message = "restored", !.pc = "return"])
       ELSE /\ rstack' = RSetTop([RTop EXCEPT !.success = TRUE, !.message = "restored", !.pc = "return"])
            /\ UNCHANGED <<running, faults>>
    /\ UNCHANGED <<result, journal, clock, users_file, backup_dir, tmp, orphans, lock, stack, calls, crashes,
                   archives, metadata, configs, scratch, restores>>

\* restore_backup returns: to the operator, or to the invocation that
\* called it for the rollback, which sets its message by the result
RestoreReturn ==
    /\ RAt("return")
    /\ rstack' = IF Len(rstack) = 1
                 THEN <<>>
                 ELSE Append(SubSeq(rstack, 1, Len(rstack) - 2),
                        [rstack[Len(rstack) - 1] EXCEPT
                            !.message = IF RTop.success THEN "rolled back" ELSE "rollback failed",
                            !.pc = "return"])
    /\ result' = IF Len(rstack) = 1 THEN Outcome(RTop) ELSE result
    /\ UNCHANGED <<journal, clock, users_file, backup_dir, tmp, orphans, lock, stack, calls, crashes,
                   archives, metadata, configs, running, scratch, faults, restores>>

\* the operator, told that the restore failed and was rolled back, calls
\* restore_backup again with the same arguments
CallRestoreAgain ==
    /\ rstack = <<>> /\ restores < MaxRestores + 1
    /\ result.message = "rolled back"
    /\ rstack' = <<[RFrame(result.target, result.mgr) EXCEPT
                        !.pre_users = users_file, !.pre_configs = configs, !.again = TRUE]>>
    /\ restores' = restores + 1
    /\ UNCHANGED <<result, journal, clock, users_file, backup_dir, tmp, orphans, lock, stack, calls, crashes,
                   archives, metadata, configs, running, scratch, faults>>


\* ------------------------------------------------- the operator's catalog
\* An entry of the history: the operation (create_backup or an upload), the
\* archive name, the users file and well-formedness of the bytes, and
\* whether the archive was written to backups/
Entry(op, name, a, admitted) ==
    [op |-> op, name |-> name, users |-> a.users, wf |-> a.wf, admitted |-> admitted]
IsAdmitted(e) == e.admitted
Admitted == SelectSeq(journal, IsAdmitted)

\* a file name the uploader chose that sorts after the names of this period
FarStamp == MaxClock + 1

\* create_backup(description) called by the operator: the archive, its
\* metadata record, the cleanup; or an exception before or after the archive
\* file was created
OpCreateBackup ==
    /\ Len(journal) < BackupKeep + MaxOps
    /\ \E out \in {"ok", "raise-early", "raise-late"} :
        /\ out # "ok" => faults < MaxFaults
        /\ faults' = IF out = "ok" THEN faults ELSE faults + 1
        /\ archives' = CASE out = "ok" -> CreateArchive(archives, users_file, configs, clock)
                         [] out = "raise-late" -> CreateArchiveFailed(archives, clock)
                         [] OTHER -> archives
        /\ metadata' = IF out = "ok" THEN metadata \cup {ArchName(clock, FALSE)} ELSE metadata
        /\ journal' = IF out = "ok"
                      THEN Append(journal, Entry("create", ArchName(clock, FALSE),
                                                 Archive(users_file, configs), TRUE))
                      ELSE journal
    /\ UNCHANGED <<result, clock, users_file, backup_dir, tmp, orphans, lock, stack, calls, crashes,
                   configs, running, rstack, scratch, restores>>

\* the file name the upload route passes on: the one given when it starts
\* with backup_, else backup_<timestamp>_uploaded.tar.gz
UploadName(given, now) == IF given THEN ArchName(FarStamp, TRUE) ELSE ArchName(now, TRUE)

\* faulty variant of Upload: the route hands the bytes to upload_backup unread
Upload_Unchecked(content, given) ==
    /\ Len(journal) < BackupKeep + MaxOps
    /\ LET name == UploadName(given, clock)
       IN \E io \in {"ok", "error"} :
            /\ io = "error" => faults < MaxFaults
            /\ faults' = IF io = "error" THEN faults + 1 ELSE faults
            /\ archives' = [n \in (DOMAIN archives) \cup {name} |->
                               IF n = name THEN content ELSE archives[n]]
            /\ metadata' = IF io = "ok" THEN metadata \cup {name} ELSE metadata
            /\ journal' = Append(journal, Entry("upload", name, content, TRUE))
    /\ UNCHANGED <<result, clock, users_file, backup_dir, tmp, orphans, lock, stack, calls, crashes,
                   configs, running, rstack, scratch, restores>>

\* POST /admin/backup/upload: tarfile.open on the bytes, or 400; then
\* upload_backup writes the file and its metadata record (an exception
\* between the two leaves the file alone and the route answers 500)
Upload(content, given) ==
    /\ Len(journal) < BackupKeep + MaxOps
    /\ LET name == UploadName(given, clock)
       IN IF ~content.wf
          THEN /\ journal' = Append(journal, Entry("upload", name, content, FALSE))
               /\ UNCHANGED <<archives, metadata, faults>>
          ELSE \E io \in {"ok", "error"} :
                 /\ io = "error" => faults < MaxFaults
                 /\ faults' = IF io = "error" THEN faults + 1 ELSE faults
                 /\ archives' = [n \in (DOMAIN archives) \cup {name} |->
                                    IF n = name THEN content ELSE archives[n]]
                 /\ metadata' = IF io = "ok" THEN metadata \cup {name} ELSE metadata
                 /\ journal' = Append(journal, Entry("upload", name, content, TRUE))
    /\ UNCHANGED <<result, clock, users_file, backup_dir, tmp, orphans, lock, stack, calls, crashes,
                   configs, running, rstack, scratch, restores>>

\* list_backups(): the metadata records, sorted(glob, reverse=True)
ListBackups(md) == Reverse(SortArch(md))


\* =========================================================== specifications
\* the store after construction over a deployment's document: the users file
\* exists, no snapshot yet, nobody inside a call
InitDocs == {Doc(SCHEMA_VERSION, us, "srv", 0) : us \in {{}, {Alice, Bob}}}

\* the backup directory holds an archive made in second 0 of an earlier tree
\* and an uploaded file that is no archive
InitArchives ==
    [n \in {ArchName(0, FALSE), ArchName(0, TRUE)} |->
        IF n.up THEN Garbage
        ELSE Archive(Doc(SCHEMA_VERSION, {Alice}, "srv", 0),
                     [i \in ConfigItems |-> IF i = "xray.json" THEN "x0" ELSE "absent"])]

InitStore ==
    /\ clock = 0
    /\ users_file \in InitDocs
    /\ backup_dir = <<>>
    /\ tmp = [p \in Procs |-> AbsentFile]
    /\ orphans = {}
    /\ lock = NoHolder
    /\ stack = [p \in Procs |-> <<>>]
    /\ calls = 0
    /\ crashes = 0

InitOrch ==
    /\ archives = InitArchives
    /\ metadata = DOMAIN InitArchives
    /\ configs = [i \in ConfigItems |-> IF i = "xray.json" THEN "x1" ELSE "c1"]
    /\ running = [s \in Services |-> TRUE]
    /\ rstack = <<>>
    /\ scratch = Garbage
    /\ faults = 0
    /\ restores = 0
    /\ journal = <<>>
    /\ result = NoResult

Init == InitStore /\ InitOrch

\* the steps inside save_users
SaveStep(p) ==
    \/ AcquireLock(p)
    \/ SaveValidate(p)
    \/ SaveBackup(p)
    \/ AtomicWriteTemp(p)
    \/ AtomicWriteSync(p)
    \/ AtomicWriteRename(p)
    \/ Finally(p)
    \/ Return(p)

\* the steps inside load_users, its fallback and restore_from_backup
LoadStep(p) ==
    \/ LoadRead(p)
    \/ FallbackLoop(p)
    \/ CopyBegin(p)
    \/ CopyEnd(p)
    \/ RestoreCheck(p)

\* The document store: load_users, save_users and restore_from_backup called
\* by two processes, crashes, the clock.
Next ==
    \/ \E p \in Procs : CallLoad(p)
    \/ \E p \in Procs, us \in SaveInputs : CallSave(p, us)
    \/ \E p \in Procs, b \in BackupInputs : CallRestoreFromBackup(p, b)
    \/ \E p \in Procs : SaveStep(p)
    \/ \E p \in Procs : LoadStep(p)
    \/ \E p \in Procs : Crash(p)
    \/ Tick

Spec == Init /\ [][Next]_vars

\* add_user and remove_user called concurrently by two processes
NextRMW ==
    \/ \E p \in Procs, n \in NameInputs : CallAdd(p, n)
    \/ \E p \in Procs, n \in NameInputs : CallRemove(p, n)
    \/ \E p \in Procs : AddCheck(p)
    \/ \E p \in Procs : RemoveCheck(p)
    \/ \E p \in Procs : LoadRead(p)
    \/ \E p \in Procs : SaveStep(p)

SpecRMW == Init /\ [][NextRMW]_vars

\* save_users of one record: usernames of 0 to 32 + ExtraLen word
\* characters, alone or followed by a newline or another character, and
\* identifiers around the UUID shape
NameStrings ==
    {Rep("w", n) \o t : n \in 0..(UsernameMax + ExtraLen), t \in {<<>>, <<"n">>, <<"x">>}}
IdStrings ==
    {GoodUuid, GoodUuid \o <<"n">>, GoodUuid \o <<"h">>, SubSeq(GoodUuid, 1, UuidLen - 1),
     [GoodUuid EXCEPT ![1] = "H"], [GoodUuid EXCEPT ![1] = "x"],
     [GoodUuid EXCEPT ![9] = "h"], <<>>}
RecordInputs ==
    {MkUser(n, GoodUuid) : n \in NameStrings} \cup {MkUser(Alice.username, i) : i \in IdStrings}

NextValidate ==
    \/ \E u \in RecordInputs : CallSave("p1", {u})
    \/ SaveStep("p1")

\* one call of save_users
InitValidate ==
    /\ InitOrch
    /\ clock = 0
    /\ users_file \in InitDocs
    /\ backup_dir = <<>>
    /\ tmp = [p \in Procs |-> AbsentFile]
    /\ orphans = {}
    /\ lock = NoHolder
    /\ stack = [p \in Procs |-> <<>>]
    /\ calls = MaxCalls - 1
    /\ crashes = 0

SpecValidate == InitValidate /\ [][NextValidate]_vars

\* the archive names the operator may ask to restore: the archive, the
\* uploaded file, a name that does not exist
RestoreInputs == {ArchName(0, FALSE), ArchName(0, TRUE), ArchName(MaxClock + 1, FALSE)}

\* The restore orchestrator
NextRestore ==
    \/ \E t \in RestoreInputs, m \in BOOLEAN : CallRestoreBackup(t, m)
    \/ RestoreValidate
    \/ RestoreSafety
    \/ RestoreStop
    \/ RestoreExtract
    \/ RestoreApplyUsersBegin
    \/ RestoreApplyUsersEnd
    \/ RestoreApplyConfigs
    \/ RestoreStart
    \/ RestoreReturn
    \/ Tick

SpecRestore == Init /\ [][NextRestore]_vars

\* The restore orchestrator in an environment without failures, and another
\* caller that calls save_users once
NextRestoreSave ==
    \/ \E t \in RestoreInputs, m \in BOOLEAN : CallRestoreBackup(t, m)
    \/ RestoreValidate
    \/ RestoreSafety
    \/ RestoreStop
    \/ RestoreExtract
    \/ RestoreApplyUsersBegin
    \/ RestoreApplyUsersEnd
    \/ RestoreApplyConfigs
    \/ RestoreStart
    \/ RestoreReturn
    \/ \E us \in SaveInputs : CallSave("p1", us)
    \/ SaveStep("p1")

InitRestoreSave ==
    /\ InitStore
    /\ archives = InitArchives
    /\ metadata = DOMAIN InitArchives
    /\ configs = [i \in ConfigItems |-> IF i = "xray.json" THEN "x1" ELSE "c1"]
    /\ running = [s \in Services |-> TRUE]
    /\ rstack = <<>>
    /\ scratch = Garbage
    /\ faults = MaxFaults
    /\ restores = 0
    /\ journal = <<>>
    /\ result = NoResult

SpecRestoreSave == InitRestoreSave /\ [][NextRestoreSave]_vars


\* an archive of an earlier tree
OldArchive ==
    Archive(Doc(SCHEMA_VERSION, {Bob}, "srv", 0),
            [i \in ConfigItems |-> IF i = "xray.json" THEN "x0" ELSE "absent"])

\* live trees the orchestrator may find: all items present, or the server
\* config files not generated yet
InitTrees ==
    {[i \in ConfigItems |-> IF i = "xray.json" THEN "x1" ELSE "c1"],
     [i \in ConfigItems |-> IF i = "xray.json" THEN "absent" ELSE "c1"]}

\* the archive of an earlier tree, made two seconds ago
EarlierName == ArchName(-2, FALSE)

InitRestoreTwice ==
    /\ InitStore
    /\ archives = [n \in {EarlierName} |-> OldArchive]
    /\ metadata = {EarlierName}
    /\ configs \in InitTrees
    /\ running = [s \in Services |-> TRUE]
    /\ rstack = <<>>
    /\ scratch = Garbage
    /\ faults = 0
    /\ restores = 0
    /\ journal = <<>>
    /\ result = NoResult

\* The restore orchestrator with an operator who repeats a restore that was
\* rolled back
NextRestoreTwice ==
    \/ \E m \in BOOLEAN : CallRestoreBackup(EarlierName, m)
    \/ CallRestoreAgain
    \/ RestoreValidate
    \/ RestoreSafety
    \/ RestoreStop
    \/ RestoreExtract
    \/ RestoreApplyUsersBegin
    \/ RestoreApplyUsersEnd
    \/ RestoreApplyConfigs
    \/ RestoreStart
    \/ RestoreReturn
    \/ Tick

SpecRestoreTwice == InitRestoreTwice /\ [][NextRestoreTwice]_vars

\* ------------------------------------------------------- snapshot rotation
\* a backups/ directory with AutoKeep auto snapshots of the last seconds and
\* an older pre-migration snapshot
InitSnapshots ==
    [n \in {SnapName("auto", 0 - i) : i \in 1..AutoKeep} \cup {SnapName("pre-migration", 0 - AutoKeep - 2)}
        |-> Doc(SCHEMA_VERSION, {}, "srv", 0)]

InitRotation ==
    /\ clock = 0
    /\ users_file \in InitDocs
    /\ backup_dir = InitSnapshots
    /\ tmp = [p \in Procs |-> AbsentFile]
    /\ orphans = {}
    /\ lock = NoHolder
    /\ stack = [p \in Procs |-> <<>>]
    /\ calls = 0
    /\ crashes = 0
    /\ InitOrch

\* save_users called by two processes, crashes, the clock
NextRotation ==
    \/ \E p \in Procs, us \in SaveInputs : CallSave(p, us)
    \/ \E p \in Procs : SaveStep(p)
    \/ \E p \in Procs : Crash(p)
    \/ Tick

SpecRotation == InitRotation /\ [][NextRotation]_vars

\* a backups/ directory that holds BackupKeep archives of earlier seconds
FullNames == {ArchName(0 - i - 1, FALSE) : i \in 1..BackupKeep}
OldestName == ArchName(0 - BackupKeep - 1, FALSE)

InitRestoreOldest ==
    /\ InitStore
    /\ archives = [n \in FullNames |-> OldArchive]
    /\ metadata = FullNames
    /\ configs \in InitTrees
    /\ running = [s \in Services |-> TRUE]
    /\ rstack = <<>>
    /\ scratch = Garbage
    /\ faults = 0
    /\ restores = 0
    /\ journal = <<>>
    /\ result = NoResult

\* The restore orchestrator, asked for the oldest or the newest archive
NextRestoreOldest ==
    \/ \E t \in {OldestName, EarlierName}, m \in BOOLEAN : CallRestoreBackup(t, m)
    \/ RestoreValidate
    \/ RestoreSafety
    \/ RestoreStop
    \/ RestoreExtract
    \/ RestoreApplyUsersBegin
    \/ RestoreApplyUsersEnd
    \/ RestoreApplyConfigs
    \/ RestoreStart
    \/ RestoreReturn
    \/ Tick

SpecRestoreOldest == InitRestoreOldest /\ [][NextRestoreOldest]_vars

\* add_user and remove_user over a users file that holds, beside two
\* records that load, one that User.from_dict rejects (a 2-character name)
InitRecords ==
    /\ clock = 0
    /\ users_file = Doc(SCHEMA_VERSION, {Alice, Bob, Shorty}, "srv", 0)
    /\ backup_dir = <<>>
    /\ tmp = [p \in Procs |-> AbsentFile]
    /\ orphans = {}
    /\ lock = NoHolder
    /\ stack = [p \in Procs |-> <<>>]
    /\ calls = 0
    /\ crashes = 0
    /\ InitOrch

SpecRecords == InitRecords /\ [][NextRMW]_vars

\* ------------------------------------------------------ the catalog at work

\* Histories of a backup directory that is one short of full, or full:
\* BackupKeep - 1 archives of create_backup, made in distinct seconds;
JournalLocal ==
    [i \in 1..(BackupKeep - 1) |->
        Entry("create", ArchName(i - BackupKeep - 1, FALSE), OldArchive, TRUE)]
\* the same after an upload under a late-sorting name came first;
JournalUploadFirst ==
    <<Entry("upload", ArchName(FarStamp, TRUE), OldArchive, TRUE)>> \o JournalLocal
\* BackupKeep uploads under late-sorting names
JournalUploads ==
    [i \in 1..BackupKeep |-> Entry("upload", ArchName(FarStamp + i, TRUE), OldArchive, TRUE)]

InitJournals == {JournalLocal, JournalUploadFirst, JournalUploads}

\* the rest of the deployment beside a backup directory
InitDeployment ==
    /\ InitStore
    /\ configs = [i \in ConfigItems |-> IF i = "xray.json" THEN "x1" ELSE "c1"]
    /\ running = [s \in Services |-> TRUE]
    /\ rstack = <<>>
    /\ scratch = Garbage
    /\ restores = 0
    /\ result = NoResult

InitCatalog ==
    /\ InitDeployment
    /\ journal \in InitJournals
    /\ archives = [n \in {journal[i].name : i \in 1..Len(journal)} |-> OldArchive]
    /\ metadata = {journal[i].name : i \in 1..Len(journal)}
    /\ faults = MaxFaults - 1

\* what the operator uploads: a file that is no archive, an archive without
\* any of the items, an archive of a tree
UploadInputs == {Garbage, EmptyArchive, OldArchive}

\* The operator fills the catalog: create_backup and uploads
NextCatalog ==
    \/ OpCreateBackup
    \/ \E c \in UploadInputs, g \in BOOLEAN : Upload(c, g)
    \/ Tick

SpecCatalog == InitCatalog /\ [][NextCatalog]_vars

\* a backup directory with one archive of an earlier second, or full of
\* uploads under late-sorting names
InitBackupRestore ==
    /\ InitDeployment
    /\ journal \in {<<Entry("create", ArchName(-2, FALSE), OldArchive, TRUE)>>, JournalUploads}
    /\ archives = [n \in {journal[i].name : i \in 1..Len(journal)} |-> OldArchive]
    /\ metadata = {journal[i].name : i \in 1..Len(journal)}
    /\ faults = MaxFaults

\* the archives the operator asks to restore: the latest ones admitted
CatalogTargets ==
    {Admitted[i].name : i \in {k \in 1..Len(Admitted) : k > Len(Admitted) - 2}}

\* One operator at work, one request at a time and nothing failing:
\* creating archives, uploading one, saving the users, restoring
NextBackupRestore ==
    \/ rstack = <<>> /\ Len(journal) <= MaxOps + 1 /\ OpCreateBackup
    \/ rstack = <<>> /\ Len(journal) <= MaxOps + 1 /\ Upload(EmptyArchive, FALSE)
    \/ rstack = <<>> /\ \E us \in SaveInputs : CallSave("p1", us)
    \/ SaveStep("p1")
    \/ Idle("p1") /\ \E t \in CatalogTargets, m \in BOOLEAN : CallRestoreBackup(t, m)
    \/ RestoreValidate
    \/ RestoreSafety
    \/ RestoreStop
    \/ RestoreExtract
    \/ RestoreApplyUsersBegin
    \/ RestoreApplyUsersEnd
    \/ RestoreApplyConfigs
    \/ RestoreStart
    \/ RestoreReturn
    \/ Tick

SpecBackupRestore == InitBackupRestore /\ [][NextBackupRestore]_vars

\* ----------------------------------------- construction over older documents
\* users files written by other versions of the panel: a legacy document
\* without schema_version, one whose users section has an entry that is no
\* object, and one written by a later version
LegacyDoc == Doc(0, {Alice, Bob}, "srv", 0)
LegacyBadDoc == Doc(0, {Alice, ScalarEntry(Bob.username)}, "srv", 0)
FutureDoc == Doc(SCHEMA_VERSION + 1, {Alice, Bob}, "srv", 0)

InitMigrate ==
    /\ clock = 0
    /\ users_file \in {LegacyDoc, LegacyBadDoc, FutureDoc}
    /\ backup_dir = <<>>
    /\ tmp = [p \in Procs |-> AbsentFile]
    /\ orphans = {}
    /\ lock = NoHolder
    /\ stack = [p \in Procs |-> <<>>]
    /\ calls = 0
    /\ crashes = 0
    /\ InitOrch

\* the steps inside __init__
MigrateStep(p) ==
    \/ MigrateCheck(p)
    \/ MigrateBackup(p)
    \/ MigrateTransform(p)
    \/ MigrateRollbackBegin(p)
    \/ MigrateRollbackEnd(p)

\* Processes that construct the store and save through it, crashes, the clock.
NextMigrate ==
    \/ \E p \in Procs : CallInit(p)
    \/ \E p \in Procs : MigrateStep(p)
    \/ \E p \in Procs, us \in SaveInputs : CallSave(p, us)
    \/ \E p \in Procs : SaveStep(p)
    \/ \E p \in Procs : Crash(p)
    \/ Tick

SpecMigrate == InitMigrate /\ [][NextMigrate]_vars


\* ------------------------------------------- an older archive under a store
\* an archive made by an earlier version of the panel: its users.json has
\* no schema_version
LegacyArchive ==
    Archive(LegacyDoc, [i \in ConfigItems |-> IF i = "xray.json" THEN "x0" ELSE "absent"])

InitLoadLegacy ==
    /\ InitStore
    /\ archives = [n \in {EarlierName} |-> LegacyArchive]
    /\ metadata = {EarlierName}
    /\ configs \in InitTrees
    /\ running = [s \in Services |-> TRUE]
    /\ rstack = <<>>
    /\ scratch = Garbage
    /\ faults = MaxFaults
    /\ restores = 0
    /\ journal = <<>>
    /\ result = NoResult

\* One operator at work on a constructed store, one request at a time and
\* nothing failing: restoring the archive, loading the users
NextLoadLegacy ==
    \/ Idle("p1") /\ \E m \in BOOLEAN : CallRestoreBackup(EarlierName, m)
    \/ RestoreValidate
    \/ RestoreSafety
    \/ RestoreStop
    \/ RestoreExtract
    \/ RestoreApplyUsersBegin
    \/ RestoreApplyUsersEnd
    \/ RestoreApplyConfigs
    \/ RestoreStart
    \/ RestoreReturn
    \/ rstack = <<>> /\ CallLoad("p1")
    \/ AcquireLock("p1")
    \/ LoadRead("p1")
    \/ Finally("p1")
    \/ Return("p1")
    \/ Tick

SpecLoadLegacy == InitLoadLegacy /\ [][NextLoadLegacy]_vars

\* ==================================================================== claims

\* C1: every step of a save_users call, the crash of its process included,
\* leaves the users file as it was or replaces it by the complete document
\* of that call; it never leaves a partial or mixed file.
C1_AtomicSave ==
    [][\A p \in Procs :
          (~Idle(p) /\ Top(p).fn = "save_users" /\ stack'[p] # stack[p])
          => \/ users_file' = users_file
             \/ (Top(p).data.st = "json" /\ users_file' = Top(p).data)]_vars

\* a process crashed between the start of the temp-file write and the
\* rename (its half-written temp file is left) and the users file is whole
C1_Witness == \E o \in orphans : o.st = "partial" /\ users_file.st = "json"

\* a record that breaks the format rules: a username shorter than 3 or
\* longer than 32 characters, or an id that is no UUID (8-4-4-4-12 hex digits)
FailsFormat(u) ==
    \/ Len(u.username) < UsernameMin
    \/ Len(u.username) > UsernameMax
    \/ Len(u.id) # UuidLen
    \/ \E i \in 1..Len(u.id) : IF i \in UuidDashes THEN u.id[i] # "-" ELSE u.id[i] \notin {"h", "H"}

\* C2: a save_users call whose users hold a record that breaks the format
\* rules raises ValueError once it has validated, and no such record is ever
\* in the users file.
C2_InvalidRejected ==
    /\ \A p \in Procs :
          (/\ ~Idle(p) /\ Top(p).fn = "save_users"
           /\ Top(p).pc \notin {"acquire", "validate"}
           /\ \E u \in Top(p).users : FailsFormat(u))
          => Top(p).exc = "ValueError"
    /\ \A u \in users_file.users : ~FailsFormat(u)

\* C3: when save_users has replaced a users file that existed, and no call
\* was ever interrupted, exactly one snapshot name is new since before the
\* call, and that snapshot holds the users file as it was before the call.
C3_OneNewSnapshot ==
    \A p \in Procs :
        (/\ At(p, "save_users", "finally") /\ Top(p).ok
         /\ Top(p).preFile.st # "absent" /\ crashes = 0)
        => LET new == (DOMAIN backup_dir) \ Top(p).preNames
           IN /\ Cardinality(new) = 1
              /\ \A n \in new : backup_dir[n] = Top(p).preFile

\* the snapshots that load, and those among them created last
Loadable(dir) == {n \in DOMAIN dir : dir[n].st = "json"}
NewestLoadable(dir) == {n \in Loadable(dir) : \A m \in Loadable(dir) : m.ts <= n.ts}

\* C4: a load_users call that found the users file unreadable or malformed
\* never waits for the lock it holds itself, and what it is about to return
\* are the records of a newest snapshot that loads, or nothing when no
\* snapshot loads.
C4_FallbackToNewest ==
    \A p \in Procs :
        /\ ~(/\ ~Idle(p) /\ stack[p][1].fn = "load_users"
             /\ Top(p).pc = "acquire" /\ lock.p = p)
        /\ (At(p, "load_users", "finally") /\ Top(p).saw \in {"corrupt", "ioerror", "missing"})
           => IF Loadable(backup_dir) = {}
              THEN Top(p).users = {}
              ELSE \E n \in NewestLoadable(backup_dir) : Top(p).users = LoadedUsers(backup_dir[n])

\* add_user or remove_user has reported success to its caller
Succeeded(p) ==
    /\ ~Idle(p) /\ Depth(p) = 1
    /\ Top(p).fn \in {"add_user", "remove_user"}
    /\ Top(p).pc = "return" /\ Top(p).exc = "none" /\ Top(p).ok
\* the users file shows the change of that call
Reflected(p) ==
    IF Top(p).fn = "add_user"
    THEN Top(p).name \in Usernames(users_file.users)
    ELSE Top(p).name \notin Usernames(users_file.users)

\* C5: when two add_user/remove_user calls on distinct usernames have both
\* reported success, the users file shows both changes.
C5_NoLostUpdate ==
    \A p, q \in Procs :
        (p # q /\ Succeeded(p) /\ Succeeded(q) /\ Top(p).name # Top(q).name)
        => (Reflected(p) /\ Reflected(q))

\* restore_backup is between the start and the end of its Apply phase
InApply == rstack # <<>> /\ RTop.pc \in {"apply_users", "apply_users_end", "apply_configs"}

\* C6: while restore_backup is in its Apply phase, no step of another caller
\* changes the users file.
C6_RestoreExcludesSave ==
    [][(InApply /\ rstack' = rstack) => users_file' = users_file]_vars

\* C7: a frame that has returned or raised does not hold the lock, and the
\* lock is only ever held by a frame that is still inside its call; so once
\* a call is over another caller can acquire the lock.
C7_LockReleased ==
    /\ \A p \in Procs : \A d \in 1..Depth(p) : stack[p][d].pc = "return" => ~stack[p][d].held
    /\ lock # NoHolder => /\ lock.p \in Procs
                          /\ lock.d <= Depth(lock.p)
                          /\ stack[lock.p][lock.d].held

\* a call has raised and another process has acquired the lock since
C7_Witness ==
    \E p, q \in Procs :
        /\ p # q /\ ~Idle(p) /\ Top(p).pc = "return" /\ Top(p).exc = "ValueError"
        /\ lock.p = q

\* C8: every step of restore_backup that stops a service or changes a live
\* file is taken by an invocation that has created its safety backup; and
\* the step in which the safety backup fails ends the invocation in failure
\* and changes no service and no live file.
C8_SafetyBeforeDestructive ==
    [][(rstack # <<>> /\ rstack' # rstack) =>
          /\ ((\E s \in Services : running[s] /\ ~running'[s])
              \/ users_file' # users_file \/ configs' # configs)
             => RTop.safety_backup # NoArch
          /\ (RTop.pc = "safety" /\ Len(rstack') = Len(rstack) /\ RTop'.safety_backup = NoArch)
             => /\ RTop'.pc = "return" /\ ~RTop'.success
                /\ UNCHANGED <<running, users_file, configs>>
                /\ RTop'.services_stopped = {} /\ RTop'.files_restored = {}]_vars

\* an invocation with a safety backup has stopped services and restored files
C8_Witness ==
    \E i \in 1..Len(rstack) :
        /\ rstack[i].safety_backup # NoArch
        /\ rstack[i].services_stopped # {}
        /\ rstack[i].files_restored # {}

\* C9: restore_backup never nests deeper than the operator's call plus one
\* rollback call.
C9_RollbackAtMostOnce == Len(rstack) <= 2

\* C10: the step that finds the target archive missing or unreadable ends
\* the invocation in failure, with no safety backup, and changes no archive,
\* no metadata, no service and no live file.
C10_InvalidTargetTouchesNothing ==
    [][(/\ RAt("validate") /\ rstack' # rstack
        /\ ~(RTop.target \in DOMAIN archives /\ archives[RTop.target].wf))
       => /\ Len(rstack') = Len(rstack)
          /\ RTop'.pc = "return" /\ ~RTop'.success /\ RTop'.safety_backup = NoArch
          /\ RTop'.services_stopped = {} /\ RTop'.services_restarted = {}
          /\ UNCHANGED <<archives, metadata, running, users_file, configs, backup_dir, scratch>>]_vars

\* restore_backup of the uploaded file that is no archive has returned failure
C10_Witness ==
    /\ RAt("return") /\ RTop.target = ArchName(0, TRUE)
    /\ ~RTop.success /\ RTop.safety_backup = NoArch
    /\ archives = InitArchives

\* the operator's restore_backup call is about to return after 2 or more of
\* the services it stopped did not start again
CriticalReturn ==
    /\ Len(rstack) = 1 /\ RTop.pc = "return"
    /\ Cardinality(RTop.services_stopped \ RTop.services_restarted) >= RollbackThreshold

\* C11: when 2 or more of the stopped services did not start again, the
\* operator's call reports failure and has run a rollback; and when that
\* rollback reported success, the users file on return is the one from
\* before the call.
C11_RollbackRestoresDocument ==
    CriticalReturn => /\ ~RTop.success
                      /\ "rollback" \in RTop.errors
                      /\ RTop.message = "rolled back" => users_file = RTop.pre_users

\* C12: a restore_backup invocation that caught an exception while it had a
\* safety backup has run the rollback, with or without a service manager.
C12_ExceptionRollsBack ==
    \A i \in 1..Len(rstack) :
        (/\ rstack[i].pc = "return" /\ "exception" \in rstack[i].errors
         /\ rstack[i].safety_backup # NoArch)
        => "rollback" \in rstack[i].errors

\* the operator's restore_backup call is about to return success, and its
\* target is the name create_backup gave the i-th archive of the history
RestoredCreated(i) ==
    /\ Len(rstack) = 1 /\ RTop.pc = "return" /\ RTop.success
    /\ journal[i].op = "create" /\ RTop.target = journal[i].name

\* C13: after two create_backup calls with the users file changed in
\* between, a successful restore_backup of the first name leaves the users
\* file as it was at the first call, and its safety backup is an archive in
\* the catalog that holds the users file from before the restore.
C13_RestoreFirstOfTwo ==
    \A i, j \in 1..Len(journal) :
        (/\ i < j /\ RestoredCreated(i)
         /\ journal[j].op = "create" /\ journal[j].users # journal[i].users)
        => /\ users_file = journal[i].users
           /\ RTop.safety_backup \in DOMAIN archives
           /\ archives[RTop.safety_backup].users = RTop.pre_users

\* C16: the safety backup an invocation of restore_backup has created is in
\* the backup directory for as long as the invocation lasts.
C16_SafetyBackupKept ==
    \A i \in 1..Len(rstack) :
        rstack[i].safety_backup # NoArch => rstack[i].safety_backup \in DOMAIN archives

\* a well-formed archive without the users file or without any config item
MissingRequired(a) ==
    a.wf /\ (a.users.st = "absent" \/ \A i \in ConfigItems : a.configs[i] = "absent")

\* C17: the step that validates a well-formed target archive lacking a
\* required item ends the invocation in failure and changes no archive, no
\* service and no live file.
C17_MissingItemsRejected ==
    [][(/\ RAt("validate") /\ rstack' # rstack
        /\ RTop.target \in DOMAIN archives /\ MissingRequired(archives[RTop.target]))
       => /\ Len(rstack') = Len(rstack)
          /\ RTop'.pc = "return" /\ ~RTop'.success /\ RTop'.safety_backup = NoArch
          /\ UNCHANGED <<archives, metadata, running, users_file, configs>>]_vars

\* create_backup has just completed, and every archive in the directory
\* was admitted by an operation that completed
AfterCreate ==
    /\ Len(Admitted) > 0 /\ Admitted[Len(Admitted)].op = "create"
    /\ \A n \in DOMAIN archives : \E i \in 1..Len(Admitted) : Admitted[i].name = n

\* the names of the last k archives admitted
LastAdmitted(k) == {Admitted[i].name : i \in {m \in 1..Len(Admitted) : m > Len(Admitted) - k}}

\* C14: once BackupKeep or more archives were admitted, the archives left
\* after a create_backup are those of the last BackupKeep admissions.
C14_RetentionKeepsNewest ==
    (AfterCreate /\ Len(Admitted) >= BackupKeep)
    => DOMAIN archives = LastAdmitted(BackupKeep)

\* C15: after more than BackupKeep admissions, list_backups() after a
\* create_backup returns BackupKeep records and each has its archive.
C15_PruningDeletesMetadata ==
    (AfterCreate /\ Len(Admitted) > BackupKeep)
    => LET l == ListBackups(metadata)
       IN /\ Len(l) = BackupKeep
          /\ \A i \in 1..Len(l) : l[i] \in DOMAIN archives

\* C18: an upload step of bytes tarfile cannot open changes neither the
\* archives nor the metadata records; an upload step that is admitted
\* writes a well-formed archive; and every archive under an uploaded name is
\* well-formed.
C18_UploadValidated ==
    [][/\ (Len(journal') > Len(journal) /\ journal'[Len(journal')].op = "upload")
          => LET e == journal'[Len(journal')]
             IN IF e.wf
                THEN e.admitted /\ e.name \in DOMAIN archives' /\ archives'[e.name].wf
                ELSE ~e.admitted /\ UNCHANGED <<archives, metadata>>
       /\ \A n \in DOMAIN archives' : n.up => archives'[n].wf]_vars

\* one upload was refused and another one is in the catalog with its record
C18_Witness ==
    /\ \E i \in 1..Len(journal) : journal[i].op = "upload" /\ ~journal[i].wf /\ ~journal[i].admitted
    /\ \E j \in 1..Len(journal) :
          /\ journal[j].op = "upload" /\ journal[j].admitted /\ journal[j].name.ts = clock
          /\ journal[j].name \in metadata /\ journal[j].name \in DOMAIN archives

\* C19: when __init__ is back from a migration whose transform raised, the
\* users file is the pre-migration document and the exception reaches the
\* caller; and with no call in progress the users file is never partial.
C19_MigrationRollback ==
    /\ \A p \in Procs :
          (At(p, "_migrate_data_if_needed", "return") /\ Top(p).saw = "TypeError")
          => (users_file = Top(p).preFile /\ Top(p).exc # "none")
    /\ (\A p \in Procs : Idle(p)) => users_file.st # "partial"

\* C20: a save_users call that replaces the users file writes a
\* schema_version not below the one the file had.
C20_SchemaVersionMonotonic ==
    [][\A p \in Procs :
          (/\ At(p, "save_users", "rename") /\ stack'[p] # stack[p] /\ stack'[p] # <<>>
           /\ users_file.st = "json" /\ users_file'.st = "json")
          => users_file'.schema_version >= users_file.schema_version]_vars

\* C21: the archives admitted by two create_backup calls have different
\* names, so the later call replaces neither the archive nor the metadata
\* record of the earlier one.
C21_DistinctNames ==
    \A i, j \in 1..Len(journal) :
        (i < j /\ journal[i].op = "create" /\ journal[j].op = "create"
         /\ journal[i].admitted /\ journal[j].admitted)
        => journal[i].name # journal[j].name

\* C22: add_user of a username that matches the pattern and is not among
\* the users it loaded returns without an exception, and the users file
\* then holds a record of that username.
C22_AddUserSucceeds ==
    \A p \in Procs :
        (/\ At(p, "add_user", "return")
         /\ MatchUsername(Top(p).name)
         /\ Top(p).name \notin Usernames(Top(p).users))
        => /\ Top(p).exc = "none"
           /\ users_file.st = "json"
           /\ Top(p).name \in Usernames(users_file.users)

\* C23: a restore_backup call that repeats one that was rolled back, and
\* returns the same result (the same services stopped and restarted, the
\* same errors, rolled back), leaves the users file and the other items as
\* they were when it was called, that is, as the first rollback left them.
C23_RestoreIdempotent ==
    (/\ Len(rstack) = 1 /\ RTop.pc = "return" /\ RTop.again
     /\ Outcome(RTop) = result)
    => (users_file = RTop.pre_users /\ configs = RTop.pre_configs)

\* C30: when restore_backup returns to the operator after a rollback that
\* succeeded, and the safety backup holds the tree of the moment the
\* operator called, every item of the tree, the users file included, is as it was
\* when the operator called; an item that did not exist then does not exist.
C30_RollbackTreeEqual ==
    (/\ Len(rstack) = 1 /\ RTop.pc = "return" /\ ~RTop.again /\ RTop.message = "rolled back"
     /\ RTop.safety_backup \in DOMAIN archives
     /\ archives[RTop.safety_backup] = Archive(RTop.pre_users, RTop.pre_configs))
    => (users_file = RTop.pre_users /\ configs = RTop.pre_configs)

\* the auto snapshots in a backups/ directory
Autos(dir) == {n \in DOMAIN dir : n.kind = "auto"}

\* C24: after every step at most AutoKeep auto snapshots exist; a snapshot
\* that a step removes is an auto snapshot older than every auto snapshot
\* kept; a pre-migration snapshot stays, with its content; and the snapshot
\* a save_users call takes of the users file is among those kept.
C24_RotationKeepsLast10 ==
    [][/\ Cardinality(Autos(backup_dir')) <= AutoKeep
       /\ \A n \in (DOMAIN backup_dir) \ (DOMAIN backup_dir') :
             n.kind = "auto" /\ \A k \in Autos(backup_dir') : n.ts < k.ts
       /\ \A n \in DOMAIN backup_dir :
             n.kind = "pre-migration"
             => (n \in DOMAIN backup_dir' /\ backup_dir'[n] = backup_dir[n])
       /\ \A p \in Procs :
             (/\ At(p, "save_users", "backup") /\ stack'[p] # stack[p] /\ stack'[p] # <<>>
              /\ users_file.st # "absent")
             => /\ SnapName("auto", clock) \in DOMAIN backup_dir'
                /\ backup_dir'[SnapName("auto", clock)] = users_file]_vars

\* two saves in different seconds have rotated the two oldest auto
\* snapshots out; the pre-migration snapshot, older than both, is there
C24_Witness ==
    /\ SnapName("auto", 0 - AutoKeep) \notin DOMAIN backup_dir
    /\ SnapName("auto", 1 - AutoKeep) \notin DOMAIN backup_dir
    /\ SnapName("auto", 0) \in DOMAIN backup_dir
    /\ SnapName("auto", 1) \in DOMAIN backup_dir
    /\ Cardinality(Autos(backup_dir)) = AutoKeep
    /\ SnapName("pre-migration", 0 - AutoKeep - 2) \in DOMAIN backup_dir

\* C25: when load_users, called with no restore in progress, has read the
\* users file and returns, the file carries the store's schema version: a
\* document of a lower version was upgraded.
C25_LoadMigrates ==
    (At("p1", "load_users", "return") /\ Top("p1").saw = "ok" /\ rstack = <<>>)
    => (users_file.st = "json" /\ users_file.schema_version >= SCHEMA_VERSION)

\* C26: with no call in progress, whatever crashed before, the users file
\* is a complete document: never a truncated or half-written one.
C26_LiveDocumentWhole ==
    (\A p \in Procs : Idle(p)) => users_file.st = "json"

\* C27: when no process has crashed, no call waits for the lock on
\* .users.lock while a frame of its own process holds it.
C27_NoSelfDeadlock ==
    crashes = 0 => \A p \in Procs : ~(~Idle(p) /\ Top(p).pc = "acquire" /\ lock.p = p)

\* C28: when an invocation called by the operator is about to open its
\* target in step 4, the target exists and is the archive step 1 validated.
C28_TargetSurvivesSafety ==
    (Len(rstack) = 1 /\ RTop.pc = "extract")
    => (RTop.target \in DOMAIN archives /\ archives[RTop.target] = RTop.validated)

\* C29: when the only call made so far is an add_user or a remove_user of
\* name u, the step that replaces the users file keeps every record on
\* disk of another username as it is, and keeps the server section.
C29_OtherRecordsKept ==
    [][\A p \in Procs :
          (/\ calls = 1 /\ Depth(p) = 2
           /\ stack[p][1].fn \in {"add_user", "remove_user"}
           /\ At(p, "save_users", "rename") /\ stack'[p] # stack[p] /\ stack'[p] # <<>>
           /\ users_file.st = "json")
          => /\ users_file'.st = "json"
             /\ users_file'.server = users_file.server
             /\ \A u \in users_file.users :
                   u.username # stack[p][1].name => u \in users_file'.users]_vars

====
